---------------------------- MODULE Spec2Model ----------------------------
(***************************************************************************)
(* CALMA data wrangling (gklyne/calma-wrangling): the command dispatcher   *)
(* of wrangle.py, the status codes of wrangle_errors.py and the fetch,     *)
(* schema-export and instance-export functions of calma_data.py.           *)
(*                                                                         *)
(* Strings are TLA+ strings (Len, \o and SubSeq act on them as on Python   *)
(* strings).  A graph is a set of triples <<s, p, o>> of nodes.  The       *)
(* output tree is a function from document paths to documents, a document  *)
(* being a function from JSON keys to values.                              *)
(***************************************************************************)
EXTENDS Integers, Sequences, FiniteSets, TLC

VARIABLES
    command,    \* options.command
    args,       \* options.args, a sequence of strings
    web,        \* what the remote source holds: location -> graph (fixed)
    pc,         \* position of the running command
    outcome,    \* "pending", "returned" or "raised": how run() ended
    status,     \* the status run() returned (read when outcome = "returned")
    rdf,        \* the graph the command holds
    todo,       \* activities the enumeration of line 422 has still to yield
    listed,     \* the activities that enumeration yields, in its order
    pending,    \* types the export loop under way has still to visit
    subjects,   \* subjects of the type in hand the instance export has still to visit
    fetched,    \* the requests made by this run: <<[url, status], ...>>
    docs,       \* the output tree: path -> document
    docs0,      \* the output tree when this run started
    written,    \* this run: path -> the entities written to that path
    visited,    \* this run: <<phase, type>> for every type an export loop took up
    views,      \* this run: type -> the field list written to its view document and
                \* the (pn, pf, pk) triples discovered for it, in order, and the
                \* field documents written for them
    runs,       \* number of runs started
    act,        \* the activity-id derivation under test (ActSpec)
    info        \* the subject extraction under test (InfoSpec)

vars == <<command, args, web, pc, outcome, status, rdf, todo, listed, pending, subjects,
          fetched, docs, docs0, written, visited, views, runs, act, info>>

(***************************************************************************)
(* Bounds of the model.                                                    *)
(***************************************************************************)
MaxTriples == 3     \* triples in the graph at the listing location
MaxRuns    == 2     \* runs of the command over the same remote content
MaxPad     == 3     \* padding characters in front of an activity path segment
MaxPairs   == 3     \* (predicate, object) pairs a subject carries (InfoSpec)

(***************************************************************************)
(* wrangle_errors.py: exit status codes.                                   *)
(***************************************************************************)
SUCCESS        == 0
BADCMD         == 2
MISSINGARG     == 7
UNEXPECTEDARGS == 8
HTTPFAIL       == 9
UNKNOWNCMD     == 11

(***************************************************************************)
(* Strings.                                                                *)
(***************************************************************************)
Alphabet == "#-./0123456789:ABCDEFGHIJKLMNOPQRSTUVWXYZ_abcdefghijklmnopqrstuvwxyz"

Char(s, i) == SubSeq(s, i, i)

AlphabetChars == [i \in 1..Len(Alphabet) |-> Char(Alphabet, i)]

\* ord(c), as the position of c in Alphabet (which is in code-point order)
Ord(c) == CHOOSE i \in DOMAIN AlphabetChars : AlphabetChars[i] = c

StartsWith(s, pre) == Len(s) >= Len(pre) /\ SubSeq(s, 1, Len(pre)) = pre

\* Python's s1 <= s2 on strings, lexicographic by code point, from index i on.
RECURSIVE StrLeqFrom(_, _, _)
StrLeqFrom(s1, s2, i) ==
    IF i > Len(s1) THEN TRUE
    ELSE IF i > Len(s2) THEN FALSE
    ELSE IF Char(s1, i) = Char(s2, i) THEN StrLeqFrom(s1, s2, i + 1)
    ELSE Ord(Char(s1, i)) < Ord(Char(s2, i))

StrLeq(s1, s2) == s1 = s2 \/ StrLeqFrom(s1, s2, 1)

\* s.replace(a, b) for one-character a.
RECURSIVE Replace(_, _, _)
Replace(s, a, b) ==
    IF s = "" THEN ""
    ELSE (IF Char(s, 1) = a THEN b ELSE Char(s, 1)) \o Replace(SubSeq(s, 2, Len(s)), a, b)

\* Index of the first / last occurrence of character c in s, 0 when there is none.
IndexOf(s, c) ==
    LET P == {i \in 1..Len(s) : Char(s, i) = c}
    IN  IF P = {} THEN 0 ELSE CHOOSE i \in P : \A j \in P : i <= j

LastIndexOf(s, c) ==
    LET P == {i \in 1..Len(s) : Char(s, i) = c}
    IN  IF P = {} THEN 0 ELSE CHOOSE i \in P : \A j \in P : i >= j

(***************************************************************************)
(* Nodes, namespaces and graphs (rdflib).                                  *)
(***************************************************************************)
RDF  == "http://www.w3.org/1999/02/22-rdf-syntax-ns#"
RDFS == "http://www.w3.org/2000/01/rdf-schema#"
PROV == "http://www.w3.org/ns/prov#"
EX1  == "http://ex.org/one#"
EX2  == "http://ex.org/two#"
CAL1 == "http://c.org/d/track-0123456789ab#"
CAL2 == "http://c.org/d/analysis-blob-of-run#"

URIRef(ns, name) == [kind |-> "uri",   ns |-> ns,   name |-> name]
Literal(v)       == [kind |-> "lit",   ns |-> "",   name |-> v]
BNode(id)        == [kind |-> "bnode", ns |-> "",   name |-> id]

\* str(node)
Str(n) == n.ns \o n.name

RDF_type     == URIRef(RDF, "type")
RDFS_label   == URIRef(RDFS, "label")
RDFS_comment == URIRef(RDFS, "comment")
RDFS_seeAlso == URIRef(RDFS, "seeAlso")
PROV_Activity == URIRef(PROV, "Activity")

\* The namespace table of the graph: rdf and rdfs are bound by rdflib, the
\* others by the documents read; EX2 is bound as the default (empty) prefix.
NsPrefix(ns) ==
    CASE ns = RDF  -> "rdf"
      [] ns = RDFS -> "rdfs"
      [] ns = PROV -> "prov"
      [] ns = EX1  -> "ex1"
      [] ns = EX2  -> ""
      [] ns = CAL1 -> "c1"
      [] ns = CAL2 -> "c2"
      [] OTHER     -> "ns1"

\* rdf.namespace_manager.compute_qname(n): (prefix, namespace, name)
compute_qname(n) == <<NsPrefix(n.ns), n.ns, n.name>>

\* rdf.subjects(p, o), rdf.objects(s, p), rdf.predicates(s, None) as sets
Subjects(g, p, o) == {t[1] : t \in {u \in g : u[2] = p /\ u[3] = o}}
Objects(g, s, p)  == {t[3] : t \in {u \in g : u[1] = s /\ u[2] = p}}
AllObjects(g, p)  == {t[3] : t \in {u \in g : u[2] = p}}
Predicates(g, s)  == {t[2] : t \in {u \in g : u[1] = s}}
PredicateObjects(g, s) == {<<t[2], t[3]>> : t \in {u \in g : u[1] = s}}

\* str(x) <= str(y): a shared namespace is a shared prefix of the two strings
NodeLeq(x, y) ==
    IF x.ns = y.ns THEN StrLeq(x.name, y.name) ELSE StrLeq(Str(x), Str(y))

\* rdf.value(subject=s, predicate=p): an object of (s, p, ?), or None ("")
Value(g, s, p) ==
    IF Objects(g, s, p) = {} THEN ""
    ELSE Str(CHOOSE o \in Objects(g, s, p) : \A o2 \in Objects(g, s, p) : NodeLeq(o, o2))

\* sorted(S) for a set of nodes
RECURSIVE Sorted(_)
Sorted(S) ==
    IF S = {} THEN <<>>
    ELSE LET m == CHOOSE x \in S : \A y \in S : NodeLeq(x, y)
         IN  <<m>> \o Sorted(S \ {m})

\* The orders in which an unordered collection may be enumerated.
Orders(S) == {f \in [1..Cardinality(S) -> S] : \A x \in S : \E i \in DOMAIN f : f[i] = x}

(***************************************************************************)
(* calma_data.py: identifier mapping and descriptors.                      *)
(***************************************************************************)
\* Python's dict.update / d[k] = v: the new entries win.
Update(d, e) == e @@ d

\* property_name_field_key(rdf, p): (name, field id, property key)
property_name_field_key(p) ==
    LET q  == compute_qname(p)
        pf == q[3] \o "_field"
        pk == IF q[1] # "" THEN q[1] \o ":" \o q[3] ELSE Str(p)
    IN  <<q[3], pf, pk>>

\* "x or default" for a looked-up string
OrDefault(x, d) == IF x # "" THEN x ELSE d

\* get_type_info(rdf, t)
get_type_info(g, t) ==
    LET q == compute_qname(t)
        qn == q[1] \o ":" \o q[3]
    IN  ("annal:uri"       :> (IF q[1] # "" THEN qn ELSE Str(t))) @@
        ("annal:id"        :> q[3]) @@
        ("rdfs:label"      :> OrDefault(Value(g, t, RDFS_label), "Type " \o qn)) @@
        ("rdfs:comment"    :> OrDefault(Value(g, t, RDFS_comment),
                                        "Type " \o qn \o " (" \o Str(t) \o ")")) @@
        ("annal:type_list" :> (q[3] \o "_list")) @@
        ("annal:type_view" :> (q[3] \o "_view"))

\* What an extraction strategy returns for a subject that is no resource.
None == ("None" :> TRUE)

\* The test of lines 108 and 132 left out.
IsURIRef_always(s) == TRUE

\* isinstance(s, URIRef)
IsURIRef(s) == s.kind = "uri"

\* The loop of lines 119-122 / 159-162 keeping the value set first.
RECURSIVE AddProperties_first_wins(_, _)
AddProperties_first_wins(sd, po) ==
    IF po = <<>> THEN sd
    ELSE LET p == po[Len(po)][1]
             o == po[Len(po)][2]
         IN  AddProperties_first_wins(
                 IF p # RDF_type
                 THEN Update(sd, property_name_field_key(p)[3] :> Str(o))
                 ELSE sd,
                 SubSeq(po, 1, Len(po) - 1))

\* The loop of lines 119-122 / 159-162 over rdf.predicate_objects(s), taken
\* in the order po: sd[pk] = str(o) for every property but the type assertion.
RECURSIVE AddProperties(_, _)
AddProperties(sd, po) ==
    IF po = <<>> THEN sd
    ELSE LET p == Head(po)[1]
             o == Head(po)[2]
         IN  AddProperties(
                 IF p # RDF_type
                 THEN Update(sd, property_name_field_key(p)[3] :> Str(o))
                 ELSE sd,
                 Tail(po))

\* get_subject_info(rdf, s), with po the enumeration of rdf.predicate_objects(s)
get_subject_info(g, s, po) ==
    IF ~IsURIRef(s) THEN None
    ELSE LET q  == compute_qname(s)
             qn == q[1] \o ":" \o q[3]
             sd == ("annal:uri"    :> (IF q[1] # "" THEN qn ELSE Str(s))) @@
                   ("annal:id"     :> q[3]) @@
                   ("rdfs:label"   :> OrDefault(Value(g, s, RDFS_label), "Resource " \o qn)) @@
                   ("rdfs:comment" :> OrDefault(Value(g, s, RDFS_comment),
                                        "Resource " \o qn \o " (" \o Str(s) \o ")")) @@
                   ("rdfs:seeAlso" :> Str(s))
         IN  AddProperties(sd, po)

\* urlparse.urlparse(u).path for a URL scheme://netloc/path#fragment
StripFragment(u) ==
    IF IndexOf(u, "#") > 0 THEN SubSeq(u, 1, IndexOf(u, "#") - 1) ELSE u

AfterScheme(u) == SubSeq(u, IndexOf(u, ":") + 1, Len(u))

AfterNetloc(x) ==
    IF IndexOf(x, "/") > 0 THEN SubSeq(x, IndexOf(x, "/"), Len(x)) ELSE ""

PathOf(r) ==
    IF StartsWith(r, "//") THEN AfterNetloc(SubSeq(r, 3, Len(r))) ELSE r

UrlPath(u) == PathOf(AfterScheme(StripFragment(u)))

\* upath.rsplit("/", 1)[1]
LastSegment(upath) == SubSeq(upath, LastIndexOf(upath, "/") + 1, Len(upath))

LowerAlnum == "abcdefghijklmnopqrstuvwxyz0123456789"

\* re.search("-([a-z0-9]{12})$", uname)
HashSuffixMatch(uname) ==
    /\ Len(uname) >= 13
    /\ Char(uname, Len(uname) - 12) = "-"
    /\ \A i \in (Len(uname) - 11)..Len(uname) : IndexOf(LowerAlnum, Char(uname, i)) > 0

\* lines 134-141: the concatenated identifier, stem + "_" + fragment
ActivityIdFull(s) ==
    LET q     == compute_qname(s)
        uname == LastSegment(UrlPath(q[2]))
        ustem == IF HashSuffixMatch(uname)
                 THEN SubSeq(uname, Len(uname) - 11, Len(uname))
                 ELSE Replace(uname, "-", "_")
    IN  ustem \o "_" \o Replace(q[3], "-", "_")

\* Lines 142-143 keeping the last 21 characters.
ShortenId_last21(actid) ==
    IF Len(actid) > 32
    THEN SubSeq(actid, 1, 8) \o "___" \o SubSeq(actid, Len(actid) - 20, Len(actid))
    ELSE actid

\* lines 142-143
ShortenId(actid) ==
    IF Len(actid) > 32
    THEN SubSeq(actid, 1, 8) \o "___" \o SubSeq(actid, Len(actid) - 19, Len(actid))
    ELSE actid

\* get_activity_info(rdf, s), with po the enumeration of rdf.predicate_objects(s)
get_activity_info(g, s, po) ==
    IF ~IsURIRef(s) THEN None
    ELSE LET q     == compute_qname(s)
             qn    == q[1] \o ":" \o q[3]
             actid == ShortenId(ActivityIdFull(s))
             sd == ("annal:uri"    :> (IF q[1] # "" THEN qn ELSE Str(s))) @@
                   ("annal:id"     :> actid) @@
                   ("rdfs:label"   :> OrDefault(Value(g, s, RDFS_label), "Resource " \o qn)) @@
                   ("rdfs:comment" :> OrDefault(Value(g, s, RDFS_comment),
                                        "Resource " \o qn \o " (" \o Str(s) \o "), id " \o actid)) @@
                   ("rdfs:seeAlso" :> Str(s))
         IN  AddProperties(sd, po)

(***************************************************************************)
(* calma_data.py: the export functions.  Each yields the documents it      *)
(* writes, in order, as <<[path, doc, ent], ...>>: export_entity(path,     *)
(* doc), and ent the entity the document describes.                        *)
(***************************************************************************)
colldir == "~/annalist_site/c/CALMA_data"

\* os.path.join(colldir, rel)
Join(dir, rel) == dir \o "/" \o rel

Entity(kind, a, b) == [kind |-> kind, a |-> a, b |-> b]

WriteOf(path, doc, ent) == [path |-> path, doc |-> doc, ent |-> ent]

\* export_type(rdf, t, td, colldir)
export_type(t, td, dir) ==
    LET ed == Update(td, ("@id"           :> "./") @@
                         ("@type"         :> <<"annal:Type">>) @@
                         ("annal:type"    :> "annal:Type") @@
                         ("annal:type_id" :> "_type"))
        ef == Join(dir, "_annalist_collection/types/" \o td["annal:id"] \o "/type_meta.jsonld")
    IN  <<WriteOf(ef, ed, Entity("type", Str(t), ""))>>

FieldRef(pf, placement) ==
    ("annal:field_id" :> pf) @@ ("annal:field_placement" :> placement)

\* export_list(rdf, t, td, colldir)
export_list(t, td, dir) ==
    LET typename == td["annal:id"]
        listname == td["annal:type_list"]
        ed == ("@id"                        :> "./") @@
              ("@type"                      :> <<"annal:List">>) @@
              ("annal:type"                 :> "annal:List") @@
              ("annal:type_id"              :> "_list") @@
              ("annal:id"                   :> listname) @@
              ("rdfs:label"                 :> ("List " \o typename)) @@
              ("rdfs:comment"               :> ("List of " \o typename \o " entities")) @@
              ("annal:display_type"         :> "List") @@
              ("annal:default_view"         :> td["annal:type_view"]) @@
              ("annal:default_type"         :> typename) @@
              ("annal:list_entity_selector" :> ("'" \o td["annal:uri"] \o "' in [@type]")) @@
              ("annal:list_fields"          :> << FieldRef("Entity_id", "small:0,3"),
                                                  FieldRef("Entity_label", "small:3,9") >>)
        ef == Join(dir, "_annalist_collection/lists/" \o listname \o "/list_meta.jsonld")
    IN  <<WriteOf(ef, ed, Entity("list", Str(t), ""))>>

\* export_field(rdf, p, pn, pf, pk, colldir, render)
export_field(p, pn, pf, pk, dir, render) ==
    LET fd == ("@id"                     :> "./") @@
              ("@type"                   :> <<"annal:Field">>) @@
              ("annal:type"              :> "annal:Field") @@
              ("annal:type_id"           :> "_field") @@
              ("annal:id"                :> pf) @@
              ("rdfs:label"              :> pn) @@
              ("rdfs:comment"            :> ("Field " \o pf \o " (" \o pk \o ", " \o Str(p) \o ")")) @@
              ("annal:field_render_type" :> render) @@
              ("annal:field_value_type"  :> "annal:Text") @@
              ("annal:placeholder"       :> ("(" \o pf \o ")")) @@
              ("annal:property_uri"      :> pk) @@
              ("annal:field_placement"   :> "small:0,12") @@
              ("annal:default_value"     :> "")
        ff == Join(dir, "_annalist_collection/fields/" \o pf \o "/field_meta.jsonld")
    IN  <<WriteOf(ff, fd, Entity("field", pk, ""))>>

\* The fixed fields every view starts with (lines 242-256).
BootstrapFields ==
    << FieldRef("Entity_id",      "small:0,12;medium:0,6"),
       FieldRef("RDF_type",       "small:0,12;medium:0,6"),
       FieldRef("RDF_link",       "small:0,12"),
       FieldRef("Entity_label",   "small:0,12"),
       FieldRef("Entity_comment", "small:0,12") >>

\* The test of line 264: is this (pn, pf, pk) new to the view?
NotAlreadySeen(f, seen) == \A i \in DOMAIN seen : seen[i] # f

\* The inner loop of lines 261-270 over the sorted predicates ps of one
\* subject; seen is the sequence of (pn, pf, pk) appended so far.
RECURSIVE WalkPredicates(_, _)
WalkPredicates(seen, ps) ==
    IF ps = <<>> THEN seen
    ELSE LET f == property_name_field_key(Head(ps))
         IN  WalkPredicates(
                 IF Head(ps) # RDF_type /\ NotAlreadySeen(f, seen)
                 THEN Append(seen, f) ELSE seen,
                 Tail(ps))

\* The outer loop of line 260 over the subjects in the order ss.
RECURSIVE WalkSubjects(_, _, _)
WalkSubjects(g, seen, ss) ==
    IF ss = <<>> THEN seen
    ELSE WalkSubjects(g, WalkPredicates(seen, Sorted(Predicates(g, Head(ss)))), Tail(ss))

\* The fields of the view of type t discovered with the subjects enumerated as so.
DiscoveredFields(g, so) == WalkSubjects(g, <<>>, so)

\* The value variable p holds once the loops of lines 260-261 have ended.
LoopVariableP(g, so) ==
    LET ps == Sorted(Predicates(g, so[Len(so)]))
    IN  ps[Len(ps)]

\* The property handed to export_field at line 274 for a discovered field.
FieldProperty(g, so, f) == LoopVariableP(g, so)

RECURSIVE ExportFields(_, _, _, _)
ExportFields(g, so, fo, dir) ==
    IF fo = <<>> THEN <<>>
    ELSE export_field(FieldProperty(g, so, Head(fo)),
                      Head(fo)[1], Head(fo)[2], Head(fo)[3], dir, "Text")
         \o ExportFields(g, so, Tail(fo), dir)

\* export_view(rdf, t, td, colldir), with so the enumeration of
\* rdf.subjects(RDF.type, t) and fo that of the set fields_to_export.
export_view(g, t, td, dir, so, fo) ==
    LET typename == td["annal:id"]
        viewname == td["annal:type_view"]
        disc == DiscoveredFields(g, so)
        vd == ("@id"               :> "./") @@
              ("@type"             :> <<"annal:View">>) @@
              ("annal:type"        :> "annal:View") @@
              ("annal:type_id"     :> "_list") @@
              ("annal:id"          :> viewname) @@
              ("rdfs:label"        :> ("View " \o typename)) @@
              ("rdfs:comment"      :> ("View of " \o typename \o " entity")) @@
              ("annal:open_view"   :> TRUE) @@
              ("annal:view_fields" :> (BootstrapFields \o
                    [i \in DOMAIN disc |-> FieldRef(disc[i][2], "small:0,12")]))
        vf == Join(dir, "_annalist_collection/views/" \o viewname \o "/view_meta.jsonld")
    IN  <<WriteOf(vf, vd, Entity("view", Str(t), ""))>>
        \o ExportFields(g, so, fo, dir)
        \o export_field(RDF_type, "RDF type", "RDF_type", "rdf:type", dir, "Text")
        \o export_field(RDF_type, "RDF type", "RDF_type", "annal:type", dir, "Text")
        \o export_field(RDFS_seeAlso, "See", "RDF_link", "rdfs:seeAlso", dir, "URILink")

\* export_subject(rdf, t, td, s, sd, colldir)
export_subject(t, td, s, sd, dir) ==
    LET typename == td["annal:id"]
        typeuri  == td["annal:uri"]
        sf == Join(dir, "d/" \o typename \o "/" \o sd["annal:id"] \o "/entity-data.jsonld")
        ed == Update(sd, ("@id"           :> "./") @@
                         ("@type"         :> <<typeuri>>) @@
                         ("annal:type"    :> typeuri) @@
                         ("annal:type_id" :> typename))
    IN  <<WriteOf(sf, ed, Entity("subject", Str(t), s.kind \o " " \o Str(s)))>>

\* The test of lines 320 and 330 left out.
IsClassified_always(t) == TRUE

\* The test of lines 320 and 330: is t a type to export?
IsClassified(t) == ~StartsWith(Str(t), RDF)

\* sorted(set(rdf.objects(None, RDF.type)))
ListTypes(g) == Sorted(AllObjects(g, RDF_type))

\* The body of the loop of lines 319-325 for one classified type.
MetadataOfType(g, t, dir, so, fo) ==
    LET td == get_type_info(g, t)
    IN  export_type(t, td, dir) \o export_list(t, td, dir) \o export_view(g, t, td, dir, so, fo)

\* The extraction strategy handed to export_annalist_subjects_from_graph.
ExtractSubject(strategy, g, s, po) ==
    IF strategy = "activity" THEN get_activity_info(g, s, po) ELSE get_subject_info(g, s, po)

\* The body of the loop of lines 333-338 for subject s of type t; po is the
\* enumeration of rdf.predicate_objects(s).
SubjectOfType(g, t, dir, strategy, s, po) ==
    LET sd == ExtractSubject(strategy, g, s, po)
    IN  IF sd # None THEN export_subject(t, get_type_info(g, t), s, sd, dir) ELSE <<>>

\* export_entity applied to a sequence of writes: the tree afterwards.
RECURSIVE ApplyWrites(_, _)
ApplyWrites(tree, ws) ==
    IF ws = <<>> THEN tree
    ELSE ApplyWrites((Head(ws).path :> Head(ws).doc) @@ tree, Tail(ws))

\* The record of which entities were written where.
RECURSIVE LogWrites(_, _)
LogWrites(log, ws) ==
    IF ws = <<>> THEN log
    ELSE LET pth == Head(ws).path
             old == IF pth \in DOMAIN log THEN log[pth] ELSE {}
         IN  LogWrites((pth :> (old \cup {Head(ws).ent})) @@ log, Tail(ws))

(***************************************************************************)
(* The remote content the model draws from.                                *)
(***************************************************************************)
ListingUrl == "http://ex.org/listing"

A1 == URIRef(CAL1, "a1")
A2 == URIRef(CAL1, "a2")
A3 == URIRef(CAL2, "activity-with-long-name")
A4 == URIRef(CAL2, "a4")
S1 == URIRef(EX1, "s1")
S2 == URIRef(EX1, "s2")
S1x == URIRef(EX2, "s1")
B1 == BNode("b1")
T1 == URIRef(EX1, "T")
T2 == URIRef(EX2, "T")
Pa == URIRef(EX1, "a")
Pb == URIRef(EX1, "b")
Pb2 == URIRef(EX2, "b")
RDF_Property == URIRef(RDF, "Property")

\* The triples the graph at ListingUrl is drawn from.
Pool ==
    { <<A1, RDF_type, PROV_Activity>>,
      <<A2, RDF_type, PROV_Activity>>,
      <<A3, RDF_type, PROV_Activity>>,
      <<S1, RDF_type, T1>>,
      <<S2, RDF_type, T1>>,
      <<S1x, RDF_type, T1>>,
      <<B1, RDF_type, T1>>,
      <<S2, RDF_type, T2>>,
      <<S1, Pb, Literal("v1")>>,
      <<S2, Pa, Literal("v2")>>,
      <<S1, Pb2, Literal("v3")>>,
      <<Pb, RDF_type, RDF_Property>>,
      <<S1, RDFS_seeAlso, URIRef(EX1, "more")>> }

Graphs == {g \in SUBSET Pool : Cardinality(g) <= MaxTriples}

\* What the activities' own locations hold.
ActivityGraphs ==
    (Str(A1) :> { <<A1, RDF_type, PROV_Activity>>,
                  <<A1, Pb, Literal("x1")>>,
                  <<A4, RDF_type, PROV_Activity>> }) @@
    (Str(A2) :> { <<A2, RDFS_label, Literal("Run 2")>>,
                  <<A2, Pa, Literal("x2")>> }) @@
    (Str(A3) :> { <<A3, Pa, Literal("x3")>> })

HttpStatus == {200, 404}

Commands == { "explore_analysis", "export_metadata", "export_subjects",
              "export_multiple_analyses", "export_all", "export_analysis",
              "help", "version", "frobnicate" }

ArgChoices == { <<>>, <<ListingUrl>>, <<"version">>, <<ListingUrl, ListingUrl>> }

(***************************************************************************)
(* wrangle.py: run().                                                      *)
(***************************************************************************)
\* The function run() hands the command to (lines 135-148), "" when none.
Handler(cmd) ==
    CASE StartsWith(cmd, "explore")    -> "explore_analysis"
      [] StartsWith(cmd, "export_met") -> "export_annalist_metadata"
      [] StartsWith(cmd, "export_sub") -> "export_annalist_subjects"
      [] StartsWith(cmd, "export_mul") -> "export_analyses_multiple"
      [] StartsWith(cmd, "export_ana") -> "export_analysis"
      [] StartsWith(cmd, "ver")        -> "wrangle_version"
      [] StartsWith(cmd, "help")       -> "wrangle_help"
      [] OTHER                         -> ""

FetchingHandlers == { "explore_analysis", "export_annalist_metadata",
                      "export_annalist_subjects", "export_analyses_multiple",
                      "export_analysis" }

\* wrangle_help(options, progname)
wrangle_help(a) ==
    IF Len(a) > 1 THEN UNEXPECTEDARGS
    ELSE IF Len(a) = 0 THEN SUCCESS
    ELSE IF StartsWith(a[1], "ver") THEN SUCCESS
    ELSE UNKNOWNCMD

\* The argument check the fetching commands start with: the status returned
\* at once, or -1 to go on (lines 41-44, 347-350, 367-370, 387-390, 411-414).
CheckArgs(a) ==
    IF Len(a) > 1 THEN UNEXPECTEDARGS      \* wrangle_unexpected
    ELSE IF Len(a) = 0 THEN MISSINGARG     \* wrangle_missingarg
    ELSE -1

(***************************************************************************)
(* calma_data.py: read_rdf and the commands.                               *)
(***************************************************************************)
WebGraph(url) == IF url \in DOMAIN web THEN web[url] ELSE {}

\* http.doRequestRDF(url, graph=graph): the graph read, merged into `graph`
\* when one is given.
doRequestRDF(url, graph) == graph \cup WebGraph(url)

\* read_rdf taking every answer for a success.
read_rdf_any_status(url, graph, st) ==
    [pair |-> TRUE, status |-> SUCCESS, rdf |-> doRequestRDF(url, graph)]

\* read_rdf(url, graph) when the request answers st.  On a status other than
\* 200 it returns wrangle_report's result, the bare status code; otherwise
\* the pair (SUCCESS, rdf).
read_rdf(url, graph, st) ==
    IF st # 200
    THEN [pair |-> FALSE, status |-> HTTPFAIL, rdf |-> {}]
    ELSE [pair |-> TRUE,  status |-> SUCCESS,  rdf |-> doRequestRDF(url, graph)]

\* "status, rdf = read_rdf(...)": unpacking a value that is no pair raises
\* TypeError.
Unpacks(r) == r.pair

\* The test of lines 48, 354, 374, 394, 418, 426 on the unpacked status.
FetchFailed(r) == r.status # SUCCESS

\* The loop of line 422 enumerating the graph as it grows: activities the
\* merged graph adds are visited too.
StillToVisit_live(rest, g, seen) ==
    rest \o Sorted({a \in Subjects(g, RDF_type, PROV_Activity) :
                      Str(a) \notin seen /\ \A i \in DOMAIN rest : rest[i] # a})

\* The activities the loop of line 422 has still to visit after one more
\* graph was merged: the enumeration was taken from the graph as it was when
\* the loop started, so the merge adds none.
StillToVisit(rest, g, seen) == rest

Idle(a) == a = [phase |-> "none", s |-> A1, full |-> "", id |-> ""]

IdleInfo(i) == i = [phase |-> "none", strategy |-> "subject", s |-> A1, po |-> <<>>, sd |-> None]

Init ==
    /\ command \in Commands
    /\ args \in ArgChoices
    /\ \E g \in Graphs : web = (ListingUrl :> g) @@ ActivityGraphs
    /\ pc = "start"
    /\ outcome = "pending"
    /\ status = -1
    /\ rdf = {}
    /\ todo = <<>>
    /\ listed = <<>>
    /\ pending = <<>>
    /\ subjects = {}
    /\ fetched = <<>>
    /\ docs = <<>>
    /\ docs0 = <<>>
    /\ written = <<>>
    /\ visited = {}
    /\ views = <<>>
    /\ runs = 1
    /\ Idle(act)
    /\ IdleInfo(info)

Return(st) ==
    /\ pc' = "done"
    /\ outcome' = "returned"
    /\ status' = st

Raise(exc) ==
    /\ pc' = "done"
    /\ outcome' = exc
    /\ status' = status

\* run(): dispatch on the command name, then the argument check of the
\* command function.
Run ==
    /\ pc = "start"
    /\ LET h == Handler(command) IN
       IF h \in FetchingHandlers
       THEN IF CheckArgs(args) # -1
            THEN Return(CheckArgs(args))
            ELSE /\ pc' = "read"
                 /\ UNCHANGED <<outcome, status>>
       ELSE IF h = "wrangle_version"
       THEN /\ pc' = "done"                 \* wrangle_version returns None
            /\ outcome' = "returned None"
            /\ status' = status
       ELSE IF h = "wrangle_help"
       THEN Return(wrangle_help(args))
       ELSE Return(BADCMD)
    /\ UNCHANGED <<command, args, web, rdf, todo, listed, pending, subjects, fetched,
                   docs, docs0, written, visited, views, runs, act, info>>

\* The first read_rdf of a fetching command and what follows it up to the
\* first loop.
ReadFirst ==
    /\ pc = "read"
    /\ \E st \in HttpStatus :
         LET r == read_rdf(args[1], {}, st)
             h == Handler(command)
         IN  /\ fetched' = Append(fetched, [url |-> args[1], status |-> st])
             /\ IF ~Unpacks(r)
                THEN Raise("TypeError") /\ UNCHANGED <<rdf, todo, listed, pending>>
                ELSE IF FetchFailed(r)
                THEN Return(r.status) /\ UNCHANGED <<rdf, todo, listed, pending>>
                ELSE /\ rdf' = r.rdf
                     /\ IF h = "explore_analysis"
                        THEN Return(SUCCESS) /\ UNCHANGED <<todo, listed, pending>>
                        ELSE IF h = "export_analyses_multiple"
                        THEN /\ \E o \in Orders(Subjects(r.rdf, RDF_type, PROV_Activity)) :
                                  todo' = o /\ listed' = o
                             /\ pc' = "merge"
                             /\ UNCHANGED <<outcome, status, pending>>
                        ELSE /\ pc' = IF h = "export_annalist_subjects"
                                      THEN "subjects" ELSE "metadata"
                             /\ pending' = ListTypes(r.rdf)
                             /\ UNCHANGED <<outcome, status, todo, listed>>
    /\ UNCHANGED <<command, args, web, subjects, docs, docs0, written, visited, views, runs, act, info>>

\* One turn of the loop of lines 422-427: fetch the next activity into the
\* shared graph; when the enumeration is exhausted, go on to the export.
MergeStep ==
    /\ pc = "merge"
    /\ IF todo = <<>>
       THEN /\ pc' = "metadata"
            /\ pending' = ListTypes(rdf)
            /\ UNCHANGED <<outcome, status, rdf, todo, fetched>>
       ELSE \E st \in HttpStatus :
              LET aurl == Str(Head(todo))
                  r == read_rdf(aurl, rdf, st)
              IN  /\ fetched' = Append(fetched, [url |-> aurl, status |-> st])
                  /\ IF ~Unpacks(r)
                     THEN Raise("TypeError") /\ UNCHANGED <<rdf, todo>>
                     ELSE IF FetchFailed(r)
                     THEN Return(r.status) /\ UNCHANGED <<rdf, todo>>
                     ELSE /\ rdf' = r.rdf
                          /\ todo' = StillToVisit(Tail(todo), r.rdf,
                                                  {fetched'[i].url : i \in DOMAIN fetched'})
                          /\ UNCHANGED <<pc, outcome, status>>
                  /\ UNCHANGED pending
    /\ UNCHANGED <<command, args, web, listed, subjects, docs, docs0, written, visited, views, runs, act, info>>

\* The (pn, pf, pk) set fields_to_export of a view.
FieldsToExport(disc) == {disc[i] : i \in DOMAIN disc}

\* One turn of the loop of export_annalist_metadata_from_graph (lines
\* 319-325); when the types are exhausted it returns SUCCESS and the command
\* goes on (lines 358-359, 398-401, 431-434).
MetadataStep ==
    /\ pc = "metadata"
    /\ IF pending = <<>>
       THEN /\ IF Handler(command) = "export_annalist_metadata"
               THEN Return(SUCCESS) /\ UNCHANGED pending
               ELSE /\ pc' = "subjects"
                    /\ pending' = ListTypes(rdf)
                    /\ UNCHANGED <<outcome, status>>
            /\ UNCHANGED <<docs, written, visited, views>>
       ELSE LET t == Head(pending) IN
            /\ pending' = Tail(pending)
            /\ UNCHANGED <<pc, outcome, status>>
            /\ IF IsClassified(t)
               THEN \E so \in Orders(Subjects(rdf, RDF_type, t)) :
                    \E fo \in Orders(FieldsToExport(DiscoveredFields(rdf, so))) :
                      LET ws == MetadataOfType(rdf, t, colldir, so, fo)
                      IN  /\ docs' = ApplyWrites(docs, ws)
                          /\ written' = LogWrites(written, ws)
                          /\ visited' = visited \cup {<<"metadata", t>>}
                          /\ views' = (t :> [fields |-> ws[3].doc["annal:view_fields"],
                                              disc   |-> DiscoveredFields(rdf, so),
                                              fdocs  |-> {ws[3 + i].doc : i \in DOMAIN fo}])
                                          @@ views
               ELSE UNCHANGED <<docs, written, visited, views>>
    /\ UNCHANGED <<command, args, web, rdf, todo, listed, subjects, fetched, docs0, runs, act, info>>

\* The strategy the command hands to export_annalist_subjects_from_graph
\* (lines 378, 401, 434-437).
Strategy(cmd) ==
    IF Handler(cmd) = "export_analyses_multiple" THEN "activity" ELSE "subject"

\* One turn of the loop over the types of
\* export_annalist_subjects_from_graph (lines 329-332); when the types are
\* exhausted it returns SUCCESS, and so does the command.
SubjectsStep ==
    /\ pc = "subjects"
    /\ IF pending = <<>>
       THEN /\ Return(SUCCESS)
            /\ UNCHANGED <<pending, subjects, visited>>
       ELSE IF IsClassified(Head(pending))
       THEN /\ pc' = "subject"
            /\ subjects' = Subjects(rdf, RDF_type, Head(pending))
            /\ visited' = visited \cup {<<"subjects", Head(pending)>>}
            /\ UNCHANGED <<pending, outcome, status>>
       ELSE /\ pending' = Tail(pending)
            /\ UNCHANGED <<pc, outcome, status, subjects, visited>>
    /\ UNCHANGED <<command, args, web, rdf, todo, listed, fetched, docs, docs0,
                   written, views, runs, act, info>>

\* One turn of the loop over the subjects of the type in hand (lines
\* 333-338): the enumeration yields one of the subjects not yet yielded.
SubjectStep ==
    /\ pc = "subject"
    /\ IF subjects = {}
       THEN /\ pc' = "subjects"
            /\ pending' = Tail(pending)
            /\ UNCHANGED <<subjects, docs, written>>
       ELSE \E s \in subjects :
            \E po \in Orders(PredicateObjects(rdf, s)) :
              LET ws == SubjectOfType(rdf, Head(pending), colldir, Strategy(command), s, po)
              IN  /\ docs' = ApplyWrites(docs, ws)
                  /\ written' = LogWrites(written, ws)
                  /\ subjects' = subjects \ {s}
                  /\ UNCHANGED <<pc, pending>>
    /\ UNCHANGED <<command, args, web, outcome, status, rdf, todo, listed, fetched,
                   docs0, visited, views, runs, act, info>>

\* The same command is run again, after a run that returned SUCCESS, over
\* unchanged remote content and the output tree the earlier run left.
Rerun ==
    /\ pc = "done"
    /\ outcome = "returned"
    /\ status = SUCCESS
    /\ runs < MaxRuns
    /\ runs' = runs + 1
    /\ pc' = "start"
    /\ outcome' = "pending"
    /\ status' = -1
    /\ rdf' = {}
    /\ todo' = <<>>
    /\ listed' = <<>>
    /\ pending' = <<>>
    /\ subjects' = {}
    /\ fetched' = <<>>
    /\ docs0' = docs
    /\ written' = <<>>
    /\ visited' = {}
    /\ views' = <<>>
    /\ UNCHANGED <<command, args, web, docs, act, info>>

Next ==
    Run \/ ReadFirst \/ MergeStep \/ MetadataStep \/ SubjectsStep \/ SubjectStep \/ Rerun

Spec == Init /\ [][Next]_vars

(***************************************************************************)
(* The activity extraction strategy on its own: get_activity_info applied  *)
(* to subjects whose namespace path segment and fragment vary in length    *)
(* and shape.                                                              *)
(***************************************************************************)
RECURSIVE Pad(_)
Pad(k) == IF k = 0 THEN "" ELSE "x" \o Pad(k - 1)

UnameShapes == { "track-0123456789ab", "track-0123456789aB", "track-0123456789abc",
                 "-0123456789ab", "0123456789ab", "analysis-blob" }

FragShapes == { "a", "run-1", "activity-with-long-name", "0123456789012345678",
                "01234567890123456789", "012345678901234567890" }

ActivityInputs ==
    { URIRef("http://c.org/d/" \o Pad(k) \o u \o "#", f) :
        k \in 0..MaxPad, u \in UnameShapes, f \in FragShapes }

ActInit ==
    /\ command = "export_multiple_analyses"
    /\ args = <<ListingUrl>>
    /\ web = ActivityGraphs
    /\ pc = "subject"
    /\ outcome = "pending"
    /\ status = -1
    /\ rdf = {}
    /\ todo = <<>>
    /\ listed = <<>>
    /\ pending = <<>>
    /\ subjects = {}
    /\ fetched = <<>>
    /\ docs = <<>>
    /\ docs0 = <<>>
    /\ written = <<>>
    /\ visited = {}
    /\ views = <<>>
    /\ runs = 1
    /\ \E s \in ActivityInputs : act = [phase |-> "input", s |-> s, full |-> "", id |-> ""]
    /\ IdleInfo(info)

\* Lines 133-141: the identifier is concatenated.
ActConcat ==
    /\ act.phase = "input"
    /\ act' = [act EXCEPT !.phase = "concat", !.full = ActivityIdFull(act.s)]
    /\ UNCHANGED <<command, args, web, pc, outcome, status, rdf, todo, listed, pending,
                   subjects, fetched, docs, docs0, written, visited, views, runs, info>>

\* Lines 142-163: the record is built; its "annal:id" is the activity id.
ActRecord ==
    /\ act.phase = "concat"
    /\ act' = [act EXCEPT !.phase = "done",
                          !.id = get_activity_info({}, act.s, <<>>)["annal:id"]]
    /\ UNCHANGED <<command, args, web, pc, outcome, status, rdf, todo, listed, pending,
                   subjects, fetched, docs, docs0, written, visited, views, runs, info>>

ActNext == ActConcat \/ ActRecord

ActSpec == ActInit /\ [][ActNext]_vars

(***************************************************************************)
(* The extraction strategies on their own: get_subject_info and            *)
(* get_activity_info applied to a subject whose (predicate, object) pairs  *)
(* are enumerated in any order, several of them with the same predicate.   *)
(***************************************************************************)
PairPool ==
    { <<Pb, Literal("v1")>>, <<Pb, Literal("v2")>>, <<Pb, Literal("v3")>>,
      <<Pa, Literal("w1")>>, <<Pb2, Literal("v1")>>, <<RDF_type, T1>>,
      <<RDFS_seeAlso, URIRef(EX1, "more")>> }

InfoSubjects == {S1, A3, B1}

\* The graph in which s carries the pairs of po.
GraphOf(s, po) == {<<s, po[i][1], po[i][2]>> : i \in DOMAIN po}

InfoInit ==
    /\ command = "export_subjects"
    /\ args = <<ListingUrl>>
    /\ web = ActivityGraphs
    /\ pc = "subject"
    /\ outcome = "pending"
    /\ status = -1
    /\ rdf = {}
    /\ todo = <<>>
    /\ listed = <<>>
    /\ pending = <<>>
    /\ subjects = {}
    /\ fetched = <<>>
    /\ docs = <<>>
    /\ docs0 = <<>>
    /\ written = <<>>
    /\ visited = {}
    /\ views = <<>>
    /\ runs = 1
    /\ Idle(act)
    /\ \E s \in InfoSubjects, st \in {"subject", "activity"} :
       \E ps \in {x \in SUBSET PairPool : Cardinality(x) <= MaxPairs} :
       \E po \in Orders(ps) :
          info = [phase |-> "input", strategy |-> st, s |-> s, po |-> po, sd |-> None]

\* sd = get_subject_info(rdf, s) (line 335), get_subject_info being the
\* strategy handed in.
InfoExtract ==
    /\ info.phase = "input"
    /\ info' = [info EXCEPT !.phase = "done",
                            !.sd = ExtractSubject(info.strategy, GraphOf(info.s, info.po),
                                                  info.s, info.po)]
    /\ UNCHANGED <<command, args, web, pc, outcome, status, rdf, todo, listed, pending,
                   subjects, fetched, docs, docs0, written, visited, views, runs, act>>

InfoNext == InfoExtract

InfoSpec == InfoInit /\ [][InfoNext]_vars

(***************************************************************************)
(* Properties.                                                             *)
(***************************************************************************)
\* The command names of the fetching commands (wrangle.py lines 40-44).
FetchingCommands == { "explore_analysis", "export_metadata", "export_subjects",
                      "export_multiple_analyses", "export_all" }

SomeFetchFailed == \E i \in DOMAIN fetched : fetched[i].status # 200

Finished == pc = "done"

Returned(st) == pc = "done" /\ outcome = "returned" /\ status = st

\* C1: a fetching command called with one argument whose fetch answers a
\* status other than 200 ends at once by returning HTTPFAIL.
C1_FetchFailureReturnsHTTPFAIL ==
    (command \in FetchingCommands /\ Len(args) = 1 /\ SomeFetchFailed)
        => Returned(HTTPFAIL)

\* C2: in the batch export, a failed fetch is the last request of the run,
\* and the run leaves the output tree as it found it.
C2_BatchAbortsOnFirstFailure ==
    (Handler(command) = "export_analyses_multiple" /\ SomeFetchFailed)
        => /\ Finished
           /\ \A i \in DOMAIN fetched : fetched[i].status # 200 => i = Len(fetched)
           /\ docs = docs0
           /\ DOMAIN written = {}

\* Three listed activities, the second one's fetch fails, over the tree an
\* earlier successful run left.
C2_Witness ==
    /\ Handler(command) = "export_analyses_multiple"
    /\ Len(listed) = 3
    /\ Len(fetched) = 3
    /\ fetched[3].status # 200
    /\ Finished
    /\ runs = 2
    /\ DOMAIN docs0 # {}

\* C3: export_all with one argument whose fetch succeeds fetches the graph,
\* runs the schema export and the instance export, and returns SUCCESS.
C3_ExportAllRunsCombinedExport ==
    (command = "export_all" /\ Len(args) = 1 /\ Finished /\ ~SomeFetchFailed)
        => /\ Returned(SUCCESS)
           /\ Len(fetched) = 1
           /\ \A t \in AllObjects(rdf, RDF_type) :
                IsClassified(t) => {<<"metadata", t>>, <<"subjects", t>>} \subseteq visited

\* C4: within one export pass no two entities of different identity are
\* written to the same document path.
C4_NoPathCollision ==
    \A pth \in DOMAIN written : Cardinality(written[pth]) <= 1

\* C5: a second run of an export over the unchanged graph leaves every
\* document as the first run wrote it.
C5_RerunWritesIdenticalDocuments ==
    (runs = 2 /\ Returned(SUCCESS)) => docs = docs0

\* The distinct non-type-assertion properties the instances of t carry.
TypeProperties(g, t) ==
    UNION {Predicates(g, s) : s \in Subjects(g, RDF_type, t)} \ {RDF_type}

\* The property keys export_view binds to bootstrap fields (lines 275-277).
BootstrapKeys == {"rdf:type", "annal:type", "rdfs:seeAlso"}

DiscoveredKeysDistinct(disc) ==
    \A i, j \in DOMAIN disc : i # j => disc[i][3] # disc[j][3]

\* C6: the field list of a view has K + 5 entries and no property
\* key is represented twice in it, the bootstrap fields included.
C6_ViewFieldsNoKeyTwice ==
    \A t \in DOMAIN views :
        /\ Len(views[t].fields) = Cardinality(TypeProperties(rdf, t)) + Len(BootstrapFields)
        /\ DiscoveredKeysDistinct(views[t].disc)
        /\ \A i \in DOMAIN views[t].disc : views[t].disc[i][3] \notin BootstrapKeys

\* C7: no type whose absolute form starts with the RDF namespace is taken up
\* by the schema export or the instance export, and no type, list, view or
\* entity document is written for one.
C7_ReservedTypesNeverExported ==
    /\ \A v \in visited : ~StartsWith(Str(v[2]), RDF)
    /\ \A pth \in DOMAIN written : \A e \in written[pth] :
         e.kind \in {"type", "list", "view", "subject"} => ~StartsWith(e.a, RDF)

\* The combined export has ended over a graph that asserts a type of the RDF
\* namespace beside a type that was exported.
C7_Witness ==
    /\ Returned(SUCCESS)
    /\ Handler(command) = "export_analysis"
    /\ \E t \in AllObjects(rdf, RDF_type) : StartsWith(Str(t), RDF)
    /\ visited # {}

\* C8: an activity identifier longer than 32 characters is recorded as its
\* first 8 characters, "___" and its last 20 characters, 31 in all; one of
\* at most 32 characters is recorded unchanged.
C8_ActivityIdShortened ==
    act.phase = "done" =>
        /\ Len(act.full) > 32 =>
             /\ Len(act.id) = 31
             /\ SubSeq(act.id, 1, 8) = SubSeq(act.full, 1, 8)
             /\ SubSeq(act.id, 9, 11) = "___"
             /\ SubSeq(act.id, 12, 31) = SubSeq(act.full, Len(act.full) - 19, Len(act.full))
        /\ Len(act.full) <= 32 => act.id = act.full
        /\ Len(act.id) <= 32

\* An identifier of more than 32 characters has been recorded.
C8_Witness == act.phase = "done" /\ Len(act.full) > 32

C10_ArgumentCountErrors ==
    (command \in FetchingCommands /\ Len(args) # 1 /\ Finished)
        => /\ Len(args) = 0 => Returned(MISSINGARG)
           /\ Len(args) >= 2 => Returned(UNEXPECTEDARGS)
           /\ fetched = <<>>
           /\ docs = docs0

\* The subjects the instance export has to write a document for: the
\* resources asserted to be of a classified type.
ResourceSubjects(g) ==
    {<<t, s>> \in AllObjects(g, RDF_type) \X {u[1] : u \in g} :
        IsClassified(t) /\ s \in Subjects(g, RDF_type, t) /\ IsURIRef(s)}

\* The path of the entity document of subject s of type t.
SubjectPath(g, t, s) ==
    export_subject(t, get_type_info(g, t), s,
                   ExtractSubject(Strategy(command), g, s, <<>>), colldir)[1].path

\* C11: the instance export writes no entity document for a typed subject
\* that is a blank node or a literal; it goes on to write the documents of
\* the resources of every classified type and returns SUCCESS.
C11_NonResourceSubjectsSkipped ==
    /\ \A pth \in DOMAIN written : \A e \in written[pth] :
         e.kind = "subject" => StartsWith(e.b, "uri ")
    /\ ( /\ Handler(command) \in {"export_annalist_subjects", "export_analysis",
                                   "export_analyses_multiple"}
         /\ Len(args) = 1
         /\ Finished
         /\ ~SomeFetchFailed )
           => /\ Returned(SUCCESS)
              /\ \A ts \in ResourceSubjects(rdf) :
                   SubjectPath(rdf, ts[1], ts[2]) \in DOMAIN written

\* The instance export has ended over a graph in which a blank node and a
\* resource are of the same classified type.
C11_Witness ==
    /\ Handler(command) = "export_annalist_subjects"
    /\ Returned(SUCCESS)
    /\ B1 \in Subjects(rdf, RDF_type, T1)
    /\ \E s \in Subjects(rdf, RDF_type, T1) : IsURIRef(s)
    /\ <<"subjects", T1>> \in visited

\* C12: the fields of a view after the bootstrap fields are those discovered
\* by walking the subjects of the type in sorted order and the predicates of
\* each in sorted order, in the order of first sight.
C12_ViewFieldsInSortedWalkOrder ==
    \A t \in DOMAIN views :
        LET walk == DiscoveredFields(rdf, Sorted(Subjects(rdf, RDF_type, t)))
        IN  /\ views[t].disc = walk
            /\ views[t].fields =
                 BootstrapFields \o [i \in DOMAIN walk |-> FieldRef(walk[i][2], "small:0,12")]

\* C14: every field document export_view writes for a discovered field
\* records, beside the name, field id and property key of a property of the
\* type's instances, the identifier of that same property.
C14_FieldDocumentNamesItsProperty ==
    \A t \in DOMAIN views : \A d \in views[t].fdocs :
            \E p \in TypeProperties(rdf, t) :
              /\ property_name_field_key(p)
                   = <<d["rdfs:label"], d["annal:id"], d["annal:property_uri"]>>
              /\ d["rdfs:comment"] = "Field " \o d["annal:id"] \o " ("
                                        \o d["annal:property_uri"] \o ", " \o Str(p) \o ")"

\* The place in the enumeration po of the last pair with predicate p.
LastOf(po, p) == CHOOSE j \in DOMAIN po :
                   po[j][1] = p /\ \A k \in DOMAIN po : po[k][1] = p => k <= j

\* C13: the attribute map of a subject holds, under the key of each of its
\* properties other than the type assertion, the stringified object of the
\* pair enumerated last for that property, whichever strategy built it; it
\* holds no key but those and the five every record starts with.
C13_LastValueWins ==
    (info.phase = "done" /\ IsURIRef(info.s)) =>
        /\ info.sd # None
        /\ \A i \in DOMAIN info.po :
             info.po[i][1] # RDF_type =>
                LET pk == property_name_field_key(info.po[i][1])[3]
                IN  /\ pk \in DOMAIN info.sd
                    /\ info.sd[pk] = Str(info.po[LastOf(info.po, info.po[i][1])][2])
        /\ DOMAIN info.sd =
             {"annal:uri", "annal:id", "rdfs:label", "rdfs:comment", "rdfs:seeAlso"}
             \cup {property_name_field_key(info.po[i][1])[3] :
                     i \in {j \in DOMAIN info.po : info.po[j][1] # RDF_type}}

\* The activity strategy has built the record of a subject that carries three
\* values of one property.
C13_Witness ==
    /\ info.phase = "done"
    /\ info.strategy = "activity"
    /\ info.sd # None
    /\ Len(info.po) = 3
    /\ \A i \in DOMAIN info.po : info.po[i][1] = Pb
    /\ info.sd["ex1:b"] = Str(info.po[3][2])

=============================================================================
